---- MODULE Spec2Model ----
(***************************************************************************)
(* Model of the scala-lapce plugin (src/main.rs): the request bridge       *)
(* handle_request, the launch decision in initialize, the release lookup   *)
(* get_latest_release_for and the tag derivation read_major_jdk_version.   *)
(*                                                                         *)
(* Text that the code searches with a regular expression (probe output,    *)
(* release strings) is a sequence of one-character strings.  Paths and     *)
(* URLs are sequences of tokens: "/" and " " are single characters, a      *)
(* token ending in ":" is a URL scheme, every other token is a run of      *)
(* ordinary path characters.                                               *)
(***************************************************************************)
EXTENDS Integers, Sequences, FiniteSets, TLC

VARIABLES
    pc,                 \* position of the plugin process
    run,                \* 1: first trigger, 2: the same trigger delivered again
    request,            \* the request handed to handle_request: method and params
    env,                \* what the environment answered (probes, registry, OS, VOLT_URI)
    java_version,       \* local of initialize, line 78
    scala_version,      \* local of initialize, line 96
    sbt_version,        \* local of initialize, line 123
    server_args,        \* local of initialize, line 149
    latest_jdk_release, \* local of initialize, line 195
    jdk_url,            \* local of initialize, line 197
    result,             \* what initialize returned to handle_request
    out,                \* host calls made for the current trigger (start_lsp, window_show_message)
    calls,              \* external collaborators queried for the current trigger
    first,              \* host calls made for the first trigger, kept for comparison
    release,            \* argument of read_major_jdk_version
    major_version       \* its return value

vars == <<pc, run, request, env, java_version, scala_version, sbt_version,
          server_args, latest_jdk_release, jdk_url, result, out, calls, first,
          release, major_version>>

(***************************************************************************)
(* Bounds of the model.                                                    *)
(***************************************************************************)
\* longest lsp.serverArgs array drawn
MaxArgs == 2
\* longest digit run in a drawn release string of the shape D.D.D+D
MaxDigits == 2
\* longest arbitrary string drawn as a release string
MaxJunk == 4

(***************************************************************************)
(* Regular expressions, as the regex crate evaluates them: leftmost match, *)
(* greedy repetition.                                                      *)
(***************************************************************************)
Digits == {"0", "1", "2", "3", "4", "5", "6", "7", "8", "9"}

\* \d+ tried at position i: the position after the longest digit run from i
RECURSIVE DigitRunEnd(_, _)
DigitRunEnd(s, i) ==
    IF i <= Len(s) /\ s[i] \in Digits THEN DigitRunEnd(s, i + 1) ELSE i

LitAt(s, i, c) == i <= Len(s) /\ s[i] = c

\* \d+\.\d+\.\d+ anchored at i: the position after the match, 0 if none
SemverEndAt(s, i) ==
    LET a == DigitRunEnd(s, i)
        b == DigitRunEnd(s, a + 1)
        c == DigitRunEnd(s, b + 1)
    IN  IF a > i /\ LitAt(s, a, ".") /\ b > a + 1 /\ LitAt(s, b, ".") /\ c > b + 1
        THEN c ELSE 0

\* start of the leftmost match of \d+\.\d+\.\d+ at or after i, 0 if none
RECURSIVE SemverSearch(_, _)
SemverSearch(s, i) ==
    IF i > Len(s) THEN 0
    ELSE IF SemverEndAt(s, i) > 0 THEN i
    ELSE SemverSearch(s, i + 1)

\* re.find(&output).map(|m| m.as_str().to_string()).unwrap_or_default()
RegexFind(s) ==
    LET i == SemverSearch(s, 1)
    IN  IF i = 0 THEN <<>> ELSE SubSeq(s, i, SemverEndAt(s, i) - 1)

\* re.find_iter(&output).map(|m| m.as_str().to_string()).collect()
RECURSIVE RegexFindIter(_, _)
RegexFindIter(s, from) ==
    LET i == SemverSearch(s, from)
    IN  IF i = 0 THEN <<>>
        ELSE <<SubSeq(s, i, SemverEndAt(s, i) - 1)>>
                 \o RegexFindIter(s, SemverEndAt(s, i))

\* (\d+)\.(\d+)\.(\d+)\+\d+ anchored at i: the position after the match, 0 if none
JdkEndAt(s, i) ==
    LET c == SemverEndAt(s, i)
        d == DigitRunEnd(s, c + 1)
    IN  IF c > 0 /\ LitAt(s, c, "+") /\ d > c + 1 THEN d ELSE 0

RECURSIVE JdkSearch(_, _)
JdkSearch(s, i) ==
    IF i > Len(s) THEN 0
    ELSE IF JdkEndAt(s, i) > 0 THEN i
    ELSE JdkSearch(s, i + 1)

\* re.captures(release): the start of the leftmost match, 0 for None
RegexCaptures(s) == JdkSearch(s, 1)

\* the second group taken for the first: the minor version
CaptureGroup2(s, i) ==
    SubSeq(s, DigitRunEnd(s, i) + 1, DigitRunEnd(s, DigitRunEnd(s, i) + 1) - 1)

\* captures.get(1).unwrap().as_str()
CaptureGroup1(s, i) == SubSeq(s, i, DigitRunEnd(s, i) - 1)

Panic == [panic |-> TRUE, value |-> <<>>]
Returned(v) == [panic |-> FALSE, value |-> v]

\* fn read_major_jdk_version(release: &str) -> String
read_major_jdk_version(r) ==
    LET captures == RegexCaptures(r)
    IN  IF captures = 0 THEN Panic
        ELSE Returned(<<"O", "p", "e", "n", "J", "D", "K">>
                          \o CaptureGroup1(r, captures) \o <<"U">>)


(***************************************************************************)
(* JSON values of the initialization options (serde_json::Value).          *)
(***************************************************************************)
\* the key is missing: get() is None
JAbsent == [kind |-> "absent", val |-> <<>>, items |-> <<>>]
\* a value that is no string, array or object
JNumber == [kind |-> "number", val |-> <<>>, items |-> <<>>]
JString(s) == [kind |-> "string", val |-> s, items |-> <<>>]
JArray(a) == [kind |-> "array", val |-> <<>>, items |-> a]
\* the value under "lsp": an object with its two keys, or no object
JObject(path, args) == [kind |-> "object", serverPath |-> path, serverArgs |-> args]
NoObject(kind) == [kind |-> kind, serverPath |-> JAbsent, serverArgs |-> JAbsent]

None == [some |-> FALSE, val |-> <<>>]
Some(v) == [some |-> TRUE, val |-> v]

\* Value::as_str
as_str(v) == IF v.kind = "string" THEN Some(v.val) ELSE None
\* Value::as_array
as_array(v) == IF v.kind = "array" THEN Some(v.items) ELSE None
\* Value::get(key) on the value under "lsp": None unless it is an object
lsp_get(lsp, key) == IF lsp.kind = "object" THEN lsp[key] ELSE JAbsent

(***************************************************************************)
(* The inputs drawn.                                                       *)
(***************************************************************************)
\* an empty path, a plain executable name, a path whose authority holds a space
Paths == {<<>>, <<"metals">>, <<"/", "/", "a", " ", "b">>}
PathValues == {JAbsent, JNumber} \cup {JString(p) : p \in Paths}

ArgElements == {JString(<<"-a">>), JString(<<"-b">>), JNumber}
RECURSIVE SeqsUpTo(_, _)
SeqsUpTo(S, n) ==
    IF n = 0 THEN {<<>>}
    ELSE LET shorter == SeqsUpTo(S, n - 1)
         IN  shorter \cup {Append(q, e) : q \in shorter, e \in S}
ArgsValues == {JAbsent, JNumber} \cup {JArray(a) : a \in SeqsUpTo(ArgElements, MaxArgs)}

LspValues ==
    {NoObject("absent"), NoObject("number")}
        \cup {JObject(p, a) : p \in PathValues, a \in ArgsValues}

\* params.initialization_options: Option<Value>
NoOptions == [present |-> FALSE, serverPath |-> JAbsent, lsp |-> NoObject("absent")]
Options ==
    {NoOptions}
        \cup {[present |-> TRUE, serverPath |-> p, lsp |-> l] : p \in PathValues, l \in LspValues}

\* the params of a request: a payload serde_json decodes to InitializeParams, or not
Undecodable == [decodable |-> FALSE, initialization_options |-> NoOptions]
Params == {Undecodable} \cup {[decodable |-> TRUE, initialization_options |-> o] : o \in Options}
Requests ==
    {[method |-> "initialize", params |-> p] : p \in Params}
        \cup {[method |-> "shutdown", params |-> Undecodable]}

\* Command::output() of a probe: the executable did not start, or it ran and left
\* an exit status and a first line on stderr
NotFound == [spawned |-> FALSE, success |-> FALSE, line |-> <<>>]
Ran(success, line) == [spawned |-> TRUE, success |-> success, line |-> line]
VersionLine == <<"v", "3", ".", "4", ".", "1">>
ProbeLines ==
    { <<>>, <<"e", "r", "r">>, VersionLine,
      <<"1", ".", "9", ".", "9", " ", "1", ".", "1", "0", ".", "2">>,
      <<"1", ".", "2", ".", "3", ".", "4", ".", "5", ".", "6", ".">> }
ProbeResults == {NotFound} \cup {Ran(ok, l) : ok \in BOOLEAN, l \in ProbeLines}
InstalledToolchain == {NotFound, Ran(TRUE, VersionLine)}

Unasked == [kind |-> "unasked", val |-> <<>>]
\* GitHub::new() fails, get_latest_version fails, or a version string comes back
RegistryAnswers ==
    { [kind |-> "no_client", val |-> <<>>], [kind |-> "error", val |-> <<>>],
      [kind |-> "ok", val |-> <<"2", "1", ".", "0", ".", "2", "+", "1", "3">>],
      [kind |-> "ok", val |-> <<"0", ".", "2", ".", "1">>] }
\* VoltEnvironment::operating_system()
OsAnswers ==
    { [kind |-> "error", val |-> <<>>], [kind |-> "ok", val |-> <<"windows">>],
      [kind |-> "ok", val |-> <<"linux">>] }
\* VoltEnvironment::uri(): unset, no URL, a URL that is no base, a directory URL,
\* a URL without the trailing slash
VoltAnswers ==
    { [kind |-> "error", val |-> <<>>], [kind |-> "ok", val |-> <<"plugins">>],
      [kind |-> "ok", val |-> <<"urn:", "volt">>],
      [kind |-> "ok", val |-> <<"file:", "/", "/", "/", "volt", "/">>],
      [kind |-> "ok", val |-> <<"file:", "/", "/", "/", "volt">>] }

(***************************************************************************)
(* Url::parse and Url::join of the url crate.                              *)
(***************************************************************************)
Schemes == {"urn:", "file:"}
Ok(v) == [ok |-> TRUE, val |-> v, err |-> ""]
Err(e) == [ok |-> FALSE, val |-> <<>>, err |-> e]

\* the tokens of the authority of s, which starts "scheme:" "/" "/"
RECURSIVE Authority(_, _)
Authority(s, i) ==
    IF i > Len(s) \/ s[i] = "/" THEN <<>> ELSE <<s[i]>> \o Authority(s, i + 1)

HasAuthority(s) == Len(s) >= 3 /\ s[2] = "/" /\ s[3] = "/"

\* Url::parse(s): a scheme is required, and a space is no host character
UrlParse(s) ==
    IF s = <<>> \/ Head(s) \notin Schemes THEN Err("relative URL without a base")
    ELSE IF HasAuthority(s) /\ \E i \in 1..Len(Authority(s, 4)) : Authority(s, 4)[i] = " "
    THEN Err("invalid domain character")
    ELSE Ok(s)

\* the index of the last "/" of s, 0 if none
RECURSIVE LastSlash(_, _)
LastSlash(s, i) == IF i = 0 \/ s[i] = "/" THEN i ELSE LastSlash(s, i - 1)

\* Url::join(rel) for a relative path: the last path segment of the base is replaced
UrlJoin(u, rel) ==
    IF Len(u) < 2 \/ u[2] # "/" THEN Err("relative URL with a cannot-be-a-base base")
    ELSE Ok(SubSeq(u, 1, LastSlash(u, Len(u))) \o rel)

\* format!("urn:{}", server_path)
UrnOf(server_path) == <<"urn:">> \o server_path

(***************************************************************************)
(* The pieces of initialize.                                               *)
(***************************************************************************)
\* the override looked up under the lsp block instead of at the top level
server_path_wrong_key(options) ==
    LET s == as_str(lsp_get(options.lsp, "serverPath"))
    IN  IF options.present /\ s.some /\ s.val # <<>> THEN Some(s.val) ELSE None

\* lines 47-58: the top-level serverPath, when it is a non-empty string
server_path_of(options) ==
    LET s == as_str(options.serverPath)
    IN  IF options.present /\ s.some /\ s.val # <<>> THEN Some(s.val) ELSE None

\* lines 64-72: the selector handed over on the top-level override; the string
\* literal of the pattern runs over a line break
override_selector ==
    <<[language |-> "scala", scheme |-> "None", pattern |-> "**/*.\n                {scala}"]>>

\* lines 141-148
document_selector ==
    <<[language |-> "scala", scheme |-> "None", pattern |-> "**/*.{scala}"]>>

\* line 62: the server URI of the top-level override; the call is spelled
\* rl::parse there and is read as the Url::parse of line 176
override_uri(server_path) == UrlParse(UrnOf(server_path))

\* lines 78-91: the first line of stderr as it is, "" when the probe did not start
java_detect(probe) == IF probe.spawned THEN probe.line ELSE <<>>

\* the last version number of the line taken for the first
scala_detect_last(probe) ==
    IF probe.spawned /\ RegexFindIter(probe.line, 1) # <<>>
    THEN RegexFindIter(probe.line, 1)[Len(RegexFindIter(probe.line, 1))]
    ELSE <<>>

\* lines 96-115: the first version number of the first line of stderr, "" when
\* there is none or the probe did not start
scala_detect(probe) == IF probe.spawned THEN RegexFind(probe.line) ELSE <<>>

\* lines 123-139: every version number of the first line of stderr; the io::Error
\* stays in the Result when the probe did not start
sbt_detect(probe) ==
    IF probe.spawned THEN Ok(RegexFindIter(probe.line, 1)) ELSE Err("io error")

\* the argument list kept from one call of initialize to the next
args_buffer_kept == server_args

\* lines 149 and 163: let mut server_args = vec![]
args_buffer == <<>>

\* the loop given up at the first element that is no string
RECURSIVE push_until_malformed(_, _)
push_until_malformed(acc, args) ==
    IF args = <<>> \/ ~as_str(Head(args)).some THEN acc
    ELSE push_until_malformed(Append(acc, as_str(Head(args)).val), Tail(args))

\* lines 165-169: the loop pushing the string elements
RECURSIVE push_strings(_, _)
push_strings(acc, args) ==
    IF args = <<>> THEN acc
    ELSE push_strings(IF as_str(Head(args)).some
                      THEN Append(acc, as_str(Head(args)).val) ELSE acc,
                      Tail(args))

\* lines 158-171: server_args after the lsp block was read
lsp_server_args(options) ==
    LET args == as_array(lsp_get(options.lsp, "serverArgs"))
    IN  IF options.present /\ args.some THEN push_strings(args_buffer, args.val)
        ELSE args_buffer

\* the namespaced path looked up under a key the options never carry
lsp_server_path_wrong_key(options) == None

\* lines 173-175: lsp.serverPath, when it is a non-empty string
lsp_server_path(options) ==
    LET s == as_str(lsp_get(options.lsp, "serverPath"))
    IN  IF options.present /\ s.some /\ s.val # <<>> THEN Some(s.val) ELSE None

\* line 176
lsp_uri(server_path) == UrlParse(UrnOf(server_path))

\* lines 197-202
jdk_url_for(os) ==
    IF os.kind = "ok" /\ os.val = <<"windows">>
    THEN << "https://github.com/adoptium/temurin21-binaries/releases/download/jdk-21.0.2%2B13/OpenJDK21U-jdk_x64_windows_hotspot_21.0.2_13.msi",
            ".exe" >>
    ELSE <<"[filename]">>

\* the working-directory URI itself, the file name never joined
install_uri_unjoined(volt) ==
    IF volt.kind # "ok" THEN Err("environment variable not found") ELSE UrlParse(volt.val)

\* lines 205-206: VoltEnvironment::uri()?, Url::parse(..)?, .join("[filename]")?
install_uri(volt) ==
    IF volt.kind # "ok" THEN Err("environment variable not found")
    ELSE IF ~UrlParse(volt.val).ok THEN UrlParse(volt.val)
    ELSE UrlJoin(UrlParse(volt.val).val, <<"[filename]">>)

\* PLUGIN_RPC.start_lsp(server_uri, server_args, document_selector, options)
start_lsp(uri, args, selector, options) ==
    [call |-> "start_lsp", server_uri |-> uri, server_args |-> args,
     document_selector |-> selector, options |-> options]

\* lines 261-264: PLUGIN_RPC.window_show_message(MessageType::ERROR, format!(..))
window_show_message(e) ==
    [call |-> "window_show_message", level |-> "ERROR",
     message |-> <<"plugin returned with error: ", e>>]

Options_ == request.params.initialization_options

(***************************************************************************)
(* The steps of the plugin process.                                        *)
(***************************************************************************)
Locals == <<java_version, scala_version, sbt_version, server_args,
            latest_jdk_release, jdk_url>>
Jdk == <<release, major_version>>

\* lines 255-259: dispatch on the method, decode the params (unwrap)
handle_request ==
    /\ pc = "idle"
    /\ pc' = IF request.method # "initialize" THEN "done"
             ELSE IF request.params.decodable THEN "initialize" ELSE "panicked"
    /\ UNCHANGED <<run, request, env, Locals, result, out, calls, first, Jdk>>

\* lines 47-76: the top-level override
initialize_override ==
    /\ pc = "initialize"
    /\ LET server_path == server_path_of(Options_)
           uri == override_uri(server_path.val)
       IN  IF ~server_path.some
           THEN pc' = "java" /\ UNCHANGED <<result, out>>
           ELSE /\ pc' = "returned"
                /\ IF uri.ok
                   THEN /\ out' = Append(out, start_lsp(uri.val, <<>>, override_selector, Options_))
                        /\ result' = Ok(<<>>)
                   ELSE /\ result' = Err(uri.err)
                        /\ UNCHANGED out
    /\ UNCHANGED <<run, request, env, Locals, calls, first, Jdk>>

\* lines 78-91
probe_java ==
    /\ pc = "java"
    /\ pc' = "scala"
    /\ calls' = Append(calls, "java")
    /\ java_version' = java_detect(env.java)
    /\ UNCHANGED <<run, request, env, scala_version, sbt_version, server_args,
                   latest_jdk_release, jdk_url, result, out, first, Jdk>>

\* lines 96-115
probe_scala ==
    /\ pc = "scala"
    /\ pc' = "sbt"
    /\ calls' = Append(calls, "scala")
    /\ scala_version' = scala_detect(env.scala)
    /\ UNCHANGED <<run, request, env, java_version, sbt_version, server_args,
                   latest_jdk_release, jdk_url, result, out, first, Jdk>>

\* lines 123-139
probe_sbt ==
    /\ pc = "sbt"
    /\ pc' = "lsp"
    /\ calls' = Append(calls, "sbt")
    /\ sbt_version' = sbt_detect(env.sbt)
    /\ UNCHANGED <<run, request, env, java_version, scala_version, server_args,
                   latest_jdk_release, jdk_url, result, out, first, Jdk>>

\* lines 141-188: the lsp block, the namespaced override
initialize_lsp ==
    /\ pc = "lsp"
    /\ server_args' = lsp_server_args(Options_)
    /\ LET server_path == lsp_server_path(Options_)
           uri == lsp_uri(server_path.val)
       IN  IF ~server_path.some
           THEN pc' = "release" /\ UNCHANGED <<result, out>>
           ELSE /\ pc' = "returned"
                /\ IF uri.ok
                   THEN /\ out' = Append(out, start_lsp(uri.val, server_args',
                                                        document_selector, Options_))
                        /\ result' = Ok(<<>>)
                   ELSE /\ result' = Err(uri.err)
                        /\ UNCHANGED out
    /\ UNCHANGED <<run, request, env, java_version, scala_version, sbt_version,
                   latest_jdk_release, jdk_url, calls, first, Jdk>>

\* what the environment answers to a query: on the first trigger any answer, and
\* that same answer from then on
Answers(field, all) == IF env[field] = Unasked THEN all ELSE {env[field]}

\* lines 195 and 224-228: get_latest_release_for("adoptium/temurin21-binaries")?
get_latest_release_for ==
    /\ pc = "release"
    /\ calls' = Append(calls, "release")
    /\ \E a \in Answers("release", RegistryAnswers) :
          /\ env' = [env EXCEPT !.release = a]
          /\ pc' = IF a.kind = "no_client" THEN "panicked"
                   ELSE IF a.kind = "error" THEN "returned" ELSE "os"
          /\ result' = IF a.kind = "error" THEN Err("registry request failed") ELSE result
          /\ latest_jdk_release' = IF a.kind = "ok" THEN a.val ELSE latest_jdk_release
    /\ UNCHANGED <<run, request, java_version, scala_version, sbt_version, server_args,
                   jdk_url, out, first, Jdk>>

\* lines 197-202
select_jdk_url ==
    /\ pc = "os"
    /\ pc' = "volt"
    /\ calls' = Append(calls, "os")
    /\ \E a \in Answers("os", OsAnswers) :
          /\ env' = [env EXCEPT !.os = a]
          /\ jdk_url' = jdk_url_for(a)
    /\ UNCHANGED <<run, request, java_version, scala_version, sbt_version, server_args,
                   latest_jdk_release, result, out, first, Jdk>>

\* lines 205-220: the install path under the working directory, start_lsp
initialize_install ==
    /\ pc = "volt"
    /\ pc' = "returned"
    /\ calls' = Append(calls, "volt")
    /\ \E a \in Answers("volt", VoltAnswers) :
          /\ env' = [env EXCEPT !.volt = a]
          /\ IF install_uri(a).ok
             THEN /\ out' = Append(out, start_lsp(install_uri(a).val, server_args,
                                                  document_selector, Options_))
                  /\ result' = Ok(<<>>)
             ELSE /\ result' = Err(install_uri(a).err)
                  /\ UNCHANGED out
    /\ UNCHANGED <<run, request, Locals, first, Jdk>>

\* lines 260-265: an Err becomes a message to the user
report_result ==
    /\ pc = "returned"
    /\ pc' = "done"
    /\ out' = IF result.ok THEN out ELSE Append(out, window_show_message(result.err))
    /\ UNCHANGED <<run, request, env, Locals, result, calls, first, Jdk>>

\* the host delivers the same request once more, in the same environment
replay ==
    /\ pc = "done"
    /\ run = 1
    /\ run' = 2
    /\ pc' = "idle"
    /\ first' = out
    /\ out' = <<>>
    /\ calls' = <<>>
    /\ result' = Ok(<<>>)
    /\ UNCHANGED <<request, env, Locals, Jdk>>

\* the host delivers the same request once more after every tool was installed:
\* the environment differs in the probes alone, and each probe now succeeds
replay_installed ==
    /\ pc = "done"
    /\ run = 1
    /\ run' = 3
    /\ pc' = "idle"
    /\ first' = out
    /\ out' = <<>>
    /\ calls' = <<>>
    /\ result' = Ok(<<>>)
    /\ env' = [env EXCEPT !.java = Ran(TRUE, VersionLine), !.scala = Ran(TRUE, VersionLine),
                          !.sbt = Ran(TRUE, VersionLine)]
    /\ UNCHANGED <<request, Locals, Jdk>>

NoJdk == release = <<>> /\ major_version = Returned(<<>>)

InitProcess ==
    /\ pc = "idle"
    /\ run = 1
    /\ java_version = <<>>
    /\ scala_version = <<>>
    /\ sbt_version = Ok(<<>>)
    /\ server_args = <<>>
    /\ latest_jdk_release = <<>>
    /\ jdk_url = <<>>
    /\ result = Ok(<<>>)
    /\ out = <<>>
    /\ calls = <<>>
    /\ first = <<>>
    /\ NoJdk

EnvOf(j, s, b) ==
    [java |-> j, scala |-> s, sbt |-> b, release |-> Unasked, os |-> Unasked, volt |-> Unasked]

\* any request, on a machine where each tool is installed or missing
Init ==
    /\ InitProcess
    /\ request \in Requests
    /\ \E j \in InstalledToolchain, s \in InstalledToolchain, b \in InstalledToolchain :
          env = EnvOf(j, s, b)

Next ==
    \/ handle_request
    \/ initialize_override
    \/ probe_java
    \/ probe_scala
    \/ probe_sbt
    \/ initialize_lsp
    \/ get_latest_release_for
    \/ select_jdk_url
    \/ initialize_install
    \/ report_result
    \/ replay
    \/ replay_installed

Spec == Init /\ [][Next]_vars

(***************************************************************************)
(* The same process on any toolchain: a request for each way through       *)
(* initialize, every probe result.                                         *)
(***************************************************************************)
OverrideOptions(top, lsp) == [present |-> TRUE, serverPath |-> top, lsp |-> lsp]
DetectRequests ==
    {[method |-> "initialize", params |-> [decodable |-> TRUE, initialization_options |-> o]] :
        o \in { NoOptions,
                OverrideOptions(JString(<<"metals">>), NoObject("absent")),
                OverrideOptions(JString(<<>>),
                                JObject(JString(<<"metals">>), JArray(<<JString(<<"-a">>)>>))),
                OverrideOptions(JAbsent,
                                JObject(JString(<<"/", "/", "a", " ", "b">>), JAbsent)) }}

InitDetect ==
    /\ InitProcess
    /\ request \in DetectRequests
    /\ \E j \in ProbeResults, s \in ProbeResults, b \in ProbeResults : env = EnvOf(j, s, b)

SpecDetect == InitDetect /\ [][Next]_vars

(***************************************************************************)
(* read_major_jdk_version on its own, as its test calls it.                *)
(***************************************************************************)
DrawnDigits == {"1", "2"}
DigitRuns == SeqsUpTo(DrawnDigits, MaxDigits) \ {<<>>}
ShapedReleases ==
    {a \o <<".">> \o b \o <<".">> \o c \o <<"+">> \o d :
        a \in DigitRuns, b \in DigitRuns, c \in DigitRuns, d \in DigitRuns}
\* the release of test_read_major_jdk_version, line 249
TestRelease == <<"2", "1", ".", "0", ".", "2", "+", "1", "3">>
JunkReleases == SeqsUpTo({"1", ".", "+", "-"}, MaxJunk)
\* releases with text around the version, as in the tag "jdk-21.0.2+13"
TaggedReleases ==
    {<<"j", "d", "k", "-">> \o TestRelease, TestRelease \o <<"-", "e", "a">>,
     <<"1", ".", "2", " ">> \o TestRelease}

InitJdk ==
    /\ pc = "jdk_call"
    /\ run = 1
    /\ request = [method |-> "test", params |-> Undecodable]
    /\ env = EnvOf(NotFound, NotFound, NotFound)
    /\ java_version = <<>>
    /\ scala_version = <<>>
    /\ sbt_version = Ok(<<>>)
    /\ server_args = <<>>
    /\ latest_jdk_release = <<>>
    /\ jdk_url = <<>>
    /\ result = Ok(<<>>)
    /\ out = <<>>
    /\ calls = <<>>
    /\ first = <<>>
    /\ release \in ShapedReleases \cup {TestRelease} \cup JunkReleases \cup TaggedReleases
    /\ major_version = Returned(<<>>)

\* lines 241-245
call_read_major_jdk_version ==
    /\ pc = "jdk_call"
    /\ major_version' = read_major_jdk_version(release)
    /\ pc' = IF major_version'.panic THEN "jdk_panicked" ELSE "jdk_returned"
    /\ UNCHANGED <<run, request, env, Locals, result, out, calls, first, release>>

NextJdk == call_read_major_jdk_version

SpecJdk == InitJdk /\ [][NextJdk]_vars

(***************************************************************************)
(* Vocabulary of the properties.                                           *)
(***************************************************************************)
Directives == {out[i] : i \in {k \in DOMAIN out : out[k].call = "start_lsp"}}
Messages == {out[i] : i \in {k \in DOMAIN out : out[k].call = "window_show_message"}}
Asked(what) == \E i \in DOMAIN calls : calls[i] = what

Initializing == request.method = "initialize" /\ request.params.decodable
TopPath == Options_.serverPath
LspPath == lsp_get(Options_.lsp, "serverPath")
LspArgs == lsp_get(Options_.lsp, "serverArgs")
NonEmptyString(v) == v.kind = "string" /\ v.val # <<>>
HasTopOverride == Initializing /\ Options_.present /\ NonEmptyString(TopPath)
HasLspOverride == Initializing /\ Options_.present /\ ~HasTopOverride /\ NonEmptyString(LspPath)
AutoProvisions == Initializing /\ ~HasTopOverride /\ ~HasLspOverride

\* the string elements of a JSON array, in the order of the array
StringsOf(a) ==
    LET kept == SelectSeq(a, LAMBDA e : e.kind = "string")
    IN  [i \in 1..Len(kept) |-> kept[i].val]
ExpectedArgs == IF LspArgs.kind = "array" THEN StringsOf(LspArgs.items) ELSE <<>>

\* the authority of a path that starts "//" holds a space
BadAuthority(path) ==
    /\ Len(path) >= 2 /\ path[1] = "/" /\ path[2] = "/"
    /\ \E i \in 3..Len(path) : path[i] = " " /\ \A j \in 3..i : path[j] # "/"

(***************************************************************************)
(* C1: when the initialization options carry a non-empty string serverPath *)
(* at the top level, the release lookup is never made (nor any other       *)
(* query), every directive emitted has the server URI "urn:" followed by   *)
(* that path and no arguments, whatever the lsp block holds, and the       *)
(* trigger ends with exactly that directive unless the path is no URL.     *)
(***************************************************************************)
C1_TopLevelOverrideWins ==
    HasTopOverride =>
        /\ ~Asked("release")
        /\ env.release = Unasked
        /\ \A d \in Directives :
              d.server_uri = <<"urn:">> \o TopPath.val /\ d.server_args = <<>>
        /\ (pc = "done" /\ ~BadAuthority(TopPath.val)) =>
              Len(out) = 1 /\ Directives # {}

\* a top-level path wins over an lsp block with another path and arguments
C1_Witness ==
    /\ pc = "done" /\ run = 1
    /\ HasTopOverride /\ TopPath.val = <<"metals">>
    /\ NonEmptyString(LspPath) /\ LspPath.val # TopPath.val
    /\ ExpectedArgs = << <<"-a">>, <<"-b">> >>
    /\ Len(out) = 1 /\ out[1].call = "start_lsp"
    /\ out[1].server_uri = <<"urn:", "metals">> /\ out[1].server_args = <<>>

(***************************************************************************)
(* C2 as claimed: without a non-empty top-level serverPath, a              *)
(* configuration that carries a string lsp.serverPath never enters         *)
(* auto-provision (the release lookup is not made).                        *)
(***************************************************************************)
C2_AnyLspPathSkipsProvisioning ==
    (Initializing /\ ~HasTopOverride /\ LspPath.kind = "string") => ~Asked("release")

(***************************************************************************)
(* C2 amended: without a non-empty top-level serverPath, a configuration   *)
(* whose lsp.serverPath is a non-empty string never enters auto-provision  *)
(* (no release lookup, no OS query, no working-directory query), every     *)
(* directive emitted has the server URI "urn:" followed by that path and   *)
(* the string elements of lsp.serverArgs as arguments, and the trigger     *)
(* ends with exactly that directive unless the path is no URL.             *)
(***************************************************************************)
C2_NamespacedOverrideWins ==
    HasLspOverride =>
        /\ ~Asked("release") /\ ~Asked("os") /\ ~Asked("volt")
        /\ env.release = Unasked /\ env.os = Unasked /\ env.volt = Unasked
        /\ \A d \in Directives :
              d.server_uri = <<"urn:">> \o LspPath.val /\ d.server_args = ExpectedArgs
        /\ (pc = "done" /\ ~BadAuthority(LspPath.val)) =>
              Len(out) = 1 /\ Directives # {}

\* an empty top-level path, a namespaced path with arguments: the directive is
\* emitted after the probes and nothing else was asked
C2_Witness ==
    /\ pc = "done" /\ run = 1
    /\ HasLspOverride /\ TopPath = JString(<<>>) /\ LspPath.val = <<"metals">>
    /\ calls = <<"java", "scala", "sbt">>
    /\ Len(out) = 1 /\ out[1].call = "start_lsp"
    /\ out[1].server_uri = <<"urn:", "metals">>
    /\ out[1].server_args = << <<"-b">>, <<"-a">> >>

IsDirectoryPart(prefix, u) ==
    /\ \E k \in 1..Len(u) :
          /\ u[k] = "/" /\ prefix = SubSeq(u, 1, k)
          /\ \A j \in (k + 1)..Len(u) : u[j] # "/"

\* uri is the install path computed from the working-directory URI: "[filename]"
\* in the directory that URI names, the URI itself when it ends in "/"
IsInstallPath(uri, volt_uri) ==
    /\ \E k \in 1..Len(uri) :
          /\ IsDirectoryPart(SubSeq(uri, 1, k), volt_uri)
          /\ SubSeq(uri, k + 1, Len(uri)) = <<"[filename]">>
    /\ volt_uri[Len(volt_uri)] = "/" => uri = volt_uri \o <<"[filename]">>

(***************************************************************************)
(* C5 as claimed: a directive emitted by auto-provision points at the      *)
(* install path computed from the working-directory URI and has no         *)
(* arguments, also when the configuration carries lsp.serverArgs.          *)
(***************************************************************************)
C5_ProvisionedDirectiveHasNoArgs ==
    (AutoProvisions /\ Asked("volt")) =>
        \A d \in Directives :
            /\ d.server_args = <<>>
            /\ IsInstallPath(d.server_uri, env.volt.val)

(***************************************************************************)
(* C5 amended: a directive emitted by auto-provision points at the         *)
(* install path computed from the working-directory URI ("[filename]"      *)
(* joined to it), and its arguments are the string elements of             *)
(* lsp.serverArgs in order, none when there is no such array; a trigger    *)
(* that asked for the working directory ends with exactly one directive or *)
(* one message.                                                            *)
(***************************************************************************)
C5_ProvisionedDirective ==
    (AutoProvisions /\ Asked("volt")) =>
        /\ \A d \in Directives :
              /\ d.server_args = ExpectedArgs
              /\ IsInstallPath(d.server_uri, env.volt.val)
        /\ pc = "done" => Len(out) = 1

\* the configuration { serverPath: "", lsp: { serverArgs: ["-a"] } } on windows with
\* the release 21.0.2+13
C5_Witness ==
    /\ pc = "done" /\ AutoProvisions
    /\ env.os.val = <<"windows">>
    /\ env.release.val = <<"2", "1", ".", "0", ".", "2", "+", "1", "3">>
    /\ Len(out) = 1 /\ out[1].call = "start_lsp"
    /\ out[1].server_uri = <<"file:", "/", "/", "/", "volt", "/", "[filename]">>
    /\ TopPath = JString(<<>>) /\ LspPath = JAbsent
    /\ LspArgs = JArray(<<JString(<<"-a">>)>>)
    /\ out[1].server_args = << <<"-a">> >>

(***************************************************************************)
(* C4 as claimed: the process never panics, and a trigger on which         *)
(* initialize returned an error ends with one ERROR message carrying the   *)
(* error's description and without a start_lsp call.                       *)
(***************************************************************************)
C4_ErrorsReportedNeverCrash ==
    /\ pc # "panicked"
    /\ (pc = "done" /\ ~result.ok) =>
          /\ Directives = {}
          /\ Len(out) = 1 /\ out[1].call = "window_show_message"
          /\ out[1].level = "ERROR" /\ out[1].message[2] = result.err

(***************************************************************************)
(* C7 as claimed: when auto-provision received a release string that does  *)
(* not match (\d+)\.(\d+)\.(\d+)\+\d+, the trigger ends in an error: no    *)
(* directive is emitted, a message is.                                     *)
(***************************************************************************)
C7_MalformedReleaseIsAnError ==
    (pc = "done" /\ AutoProvisions /\ env.release.kind = "ok"
        /\ RegexCaptures(env.release.val) = 0)
        => Directives = {} /\ Messages # {}

(***************************************************************************)
(* C8 as claimed: every directive emitted, whichever state emitted it,     *)
(* carries the one fixed document selector: language "scala", no scheme,   *)
(* the pattern of lines 141-148.                                           *)
(***************************************************************************)
C8_OneDocumentSelector ==
    \A d \in Directives : d.document_selector = document_selector

(***************************************************************************)
(* C6: for a release string MAJOR.MINOR.PATCH+BUILD, each part a non-empty *)
(* digit run, read_major_jdk_version returns "OpenJDK", the digits of      *)
(* MAJOR, "U", whatever MINOR, PATCH and BUILD are; "21.0.2+13" gives      *)
(* "OpenJDK21U".                                                           *)
(***************************************************************************)
AllDigits(s, from, to) == from <= to /\ \A n \in from..to : s[n] \in Digits
\* s is D.D.D+D with the first "." at i
ShapedWithMajor(s, i) ==
    /\ s[i] = "." /\ AllDigits(s, 1, i - 1)
    /\ \E j \in (i + 2)..Len(s) :
          /\ s[j] = "." /\ AllDigits(s, i + 1, j - 1)
          /\ \E k \in (j + 2)..(Len(s) - 1) :
                s[k] = "+" /\ AllDigits(s, j + 1, k - 1) /\ AllDigits(s, k + 1, Len(s))

C6_MajorVersionTag ==
    pc # "jdk_call" =>
        /\ \A i \in 1..Len(release) :
              ShapedWithMajor(release, i) =>
                  /\ pc = "jdk_returned"
                  /\ major_version.value
                        = <<"O", "p", "e", "n", "J", "D", "K">> \o SubSeq(release, 1, i - 1) \o <<"U">>
        /\ release = TestRelease
              => major_version.value = <<"O", "p", "e", "n", "J", "D", "K", "2", "1", "U">>

\* a two-digit major version that differs from the minor, patch and build
C6_Witness ==
    /\ pc = "jdk_returned"
    /\ release = <<"1", "2", ".", "2", ".", "1", "1", "+", "2">>
    /\ major_version = Returned(<<"O", "p", "e", "n", "J", "D", "K", "1", "2", "U">>)

(***************************************************************************)
(* C10: the same request delivered again in the same environment (same     *)
(* probe results, registry answer, operating system, working-directory     *)
(* URI) ends with the same host calls: the same directive (URI, arguments, *)
(* selector, options) or the same message.                                 *)
(***************************************************************************)
C10_Deterministic ==
    (run = 2 /\ pc = "done") => out = first

\* a second resolution that read arguments from the lsp block and ended as the first
C10_Witness ==
    /\ run = 2 /\ pc = "done" /\ out = first
    /\ Len(out) = 1 /\ out[1].call = "start_lsp"
    /\ out[1].server_args = << <<"-a">>, <<"-b">> >>
    /\ Asked("volt")

\* s is MAJOR.MINOR.PATCH, each part a non-empty digit run
IsVersion(s) ==
    \E i \in 2..Len(s) :
        /\ s[i] = "." /\ AllDigits(s, 1, i - 1)
        /\ \E j \in (i + 2)..(Len(s) - 1) :
              s[j] = "." /\ AllDigits(s, i + 1, j - 1) /\ AllDigits(s, j + 1, Len(s))
VersionAt(l, i, j) == IsVersion(SubSeq(l, i, j))
HasVersion(l) == \E i \in 1..Len(l) : \E j \in i..Len(l) : VersionAt(l, i, j)
\* v is the version that starts leftmost in l and runs as far as its digits go
IsFirstVersion(v, l) ==
    \E i \in 1..Len(l) :
        LET j == i + Len(v) - 1
        IN  /\ j <= Len(l) /\ v = SubSeq(l, i, j) /\ IsVersion(v)
            /\ (j < Len(l) => l[j + 1] \notin Digits)
            /\ \A a \in 1..(i - 1) : \A b \in a..Len(l) : ~VersionAt(l, a, b)

(***************************************************************************)
(* C9 as claimed: a probe whose executable is not found, exits abnormally  *)
(* or prints no MAJOR.MINOR.PATCH leaves the empty string (the empty       *)
(* collection for sbt) as the detected value.                              *)
(***************************************************************************)
Failed(probe) == ~probe.spawned \/ ~probe.success \/ ~HasVersion(probe.line)
====
